---- MODULE Spec2Model ----
(***************************************************************************)
(* A model of the note store and its HTTP routes (src/server.ts) and of    *)
(* the React client that calls them and the generative model               *)
(* (src/src/App.tsx).                                                      *)
(*                                                                         *)
(* Text is a sequence of one-character strings, so that emptiness, trim()  *)
(* and join() are computed and not assumed.  A JSON value is a record      *)
(* [type, val] with type "undefined" (the key is absent), "null" or        *)
(* "string".  Time is counted in ticks; the database clock,                *)
(* CURRENT_TIMESTAMP, has a resolution of one second = TicksPerSecond      *)
(* ticks.                                                                  *)
(***************************************************************************)
EXTENDS Integers, Sequences, FiniteSets, Bags, TLC

VARIABLES
    rows,          \* server: the rows of table notes
    seq,           \* server: sqlite_sequence of table notes (AUTOINCREMENT)
    now,           \* the wall clock, in ticks
    last,          \* history: the last request served, its response, the store before it
    created,       \* history: the successful create responses, in order
    deleted,       \* history: the ids of the rows DELETE has removed
    notes,         \* client: useState<Note[]>([])
    newNote,       \* client: useState('')
    messages,      \* client: useState<Message[]>([])
    input,         \* client: useState('')
    isLoading,     \* client: useState(false)
    isAddingNote,  \* client: useState(false)
    net,           \* the client's fetch() calls in flight: a bag of requests and responses
    genai,         \* the client's generateContent() calls in flight
    lastSubmit,    \* history: what handleChat did with the last submit event
    outcomes       \* history: how each generateContent() call ended, in order

serverVars == <<rows, seq>>
historyVars == <<last, created, deleted>>
clientVars == <<notes, newNote, messages, input, isLoading, isAddingNote, net, genai,
                lastSubmit, outcomes>>
vars == <<rows, seq, now, last, created, deleted, notes, newNote, messages, input,
          isLoading, isAddingNote, net, genai, lastSubmit, outcomes>>

----------------------------------------------------------------------------
(* Bounds of the model. *)

MaxCreates == 3
TicksPerSecond == 2
MaxTime == 3
MaxInFlight == 2
MaxTurns == 2
MaxAdds == 2

----------------------------------------------------------------------------
(* Text and JSON values. *)

Whitespace == {" ", "\n"}

RECURSIVE TrimStart(_)
TrimStart(t) ==
    IF t # <<>> /\ Head(t) \in Whitespace THEN TrimStart(Tail(t)) ELSE t

RECURSIVE TrimEnd(_)
TrimEnd(t) ==
    IF t # <<>> /\ t[Len(t)] \in Whitespace
    THEN TrimEnd(SubSeq(t, 1, Len(t) - 1))
    ELSE t

Trim(t) == TrimEnd(TrimStart(t))

Undefined == [type |-> "undefined", val |-> <<>>]
Null == [type |-> "null", val |-> <<>>]
Str(t) == [type |-> "string", val |-> t]

\* !v of JavaScript, for the JSON values of the model.
Falsy(v) == v.type \in {"undefined", "null"} \/ v.val = <<>>

\* The texts a user types.
Texts == {<<>>, <<" ">>, <<"a", " ">>}

\* The values of the key content in the request bodies of any caller.
BodyContents == {Undefined, Null, Str(<<>>), Str(<<"a", " ">>)}

----------------------------------------------------------------------------
(* The store: table notes. *)

Max(a, b) == IF a >= b THEN a ELSE b

MaxRowid(rs) ==
    IF rs = {} THEN 0 ELSE CHOOSE m \in {r.id : r \in rs} : \A r \in rs : r.id <= m

\* DEFAULT CURRENT_TIMESTAMP: the time of the insert, in whole seconds.
CurrentTimestamp(t) == t \div TicksPerSecond

\* INTEGER PRIMARY KEY with no AUTOINCREMENT: one more than the largest rowid
\* in the table.
RowidWithoutAutoincrement(rs, sq) == MaxRowid(rs) + 1

\* INTEGER PRIMARY KEY AUTOINCREMENT: one more than the largest rowid the
\* table has ever held, which sqlite_sequence keeps.
NextRowid(rs, sq) == Max(sq, MaxRowid(rs)) + 1

\* An insert that stores the content trimmed.
InsertedRowTrimmed(rs, sq, content, t) ==
    [id |-> NextRowid(rs, sq), content |-> Trim(content), created_at |-> CurrentTimestamp(t)]

\* INSERT INTO notes (content) VALUES (?)
InsertedRow(rs, sq, content, t) ==
    [id |-> NextRowid(rs, sq), content |-> content, created_at |-> CurrentTimestamp(t)]

\* SELECT * FROM notes ORDER BY created_at DESC: every order of the rows in
\* which created_at does not increase; SQL leaves the order of equal keys open.
RECURSIVE SelectAllOrderByCreatedAtDesc(_)
SelectAllOrderByCreatedAtDesc(rs) ==
    IF rs = {} THEN {<<>>}
    ELSE UNION { { <<r>> \o s : s \in SelectAllOrderByCreatedAtDesc(rs \ {r}) } :
                 r \in {x \in rs : \A y \in rs : x.created_at >= y.created_at} }

\* The value of a decimal digit, or -1.
DigitValue(c) ==
    CASE c = "0" -> 0 [] c = "1" -> 1 [] c = "2" -> 2 [] c = "3" -> 3 [] c = "4" -> 4
      [] c = "5" -> 5 [] c = "6" -> 6 [] c = "7" -> 7 [] c = "8" -> 8 [] c = "9" -> 9
      [] OTHER -> -1

IsDigits(t) == t # <<>> /\ \A i \in 1..Len(t) : DigitValue(t[i]) >= 0

RECURSIVE DigitsValue(_)
DigitsValue(t) ==
    IF t = <<>> THEN 0
    ELSE 10 * DigitsValue(SubSeq(t, 1, Len(t) - 1)) + DigitValue(t[Len(t)])

\* The integer a text parameter equals when it is compared with the INTEGER
\* column id (NUMERIC affinity is applied to the text), or -1 when it equals
\* none: digits, or digits followed by a point and zeros.
NumericAffinity(t) ==
    IF IsDigits(t) THEN DigitsValue(t)
    ELSE IF \E k \in 2..Len(t) :
              /\ t[k] = "."
              /\ IsDigits(SubSeq(t, 1, k - 1))
              /\ \A i \in (k + 1)..Len(t) : t[i] = "0"
         THEN LET point == CHOOSE i \in 2..Len(t) : t[i] = "."
              IN  DigitsValue(SubSeq(t, 1, point - 1))
         ELSE -1

\* DELETE FROM notes WHERE id <= ?
RowsWithoutIdOrLess(rs, param) == {r \in rs : r.id > NumericAffinity(param)}

\* DELETE FROM notes WHERE id = ?
RowsWithoutId(rs, param) == {r \in rs : r.id # NumericAffinity(param)}

\* The decimal numeral of a rowid of the model, as `/api/notes/${id}` writes it.
RECURSIVE Decimal(_)
Decimal(n) ==
    LET d == <<"0", "1", "2", "3", "4", "5", "6", "7", "8", "9">>
    IN  IF n < 10 THEN <<d[n + 1]>> ELSE Decimal(n \div 10) \o <<d[(n % 10) + 1]>>

\* The :id parameters a caller sends.
IdParams ==
    {Decimal(n) : n \in 1..MaxCreates} \cup {<<"1", ".", "0">>, <<"x">>}

----------------------------------------------------------------------------
(* The routes.  Each gives the store after the request and the response.   *)

NoRows == <<>>
NoText == <<>>

Response(status, id, content, list, success, error) ==
    [status |-> status, id |-> id, content |-> content, list |-> list,
     success |-> success, error |-> error]

\* app.get("/api/notes"): one response for each order the SELECT may give.
GetNotes(rs, sq) ==
    { [rows |-> rs, seq |-> sq, resp |-> Response(200, 0, Undefined, l, FALSE, "")] :
      l \in SelectAllOrderByCreatedAtDesc(rs) }

\* app.post("/api/notes") with no check of content.
PostNotesUnchecked(rs, sq, content, t) ==
    LET row == InsertedRow(rs, sq, content.val, t)
    IN  [rows |-> rs \cup {row}, seq |-> row.id,
         resp |-> Response(200, row.id, content, NoRows, FALSE, "")]

\* app.post("/api/notes")
PostNotes(rs, sq, content, t) ==
    IF Falsy(content)
    THEN [rows |-> rs, seq |-> sq,
          resp |-> Response(400, 0, Undefined, NoRows, FALSE, "Content is required")]
    ELSE LET row == InsertedRow(rs, sq, content.val, t)
         IN  [rows |-> rs \cup {row}, seq |-> row.id,
              resp |-> Response(200, row.id, content, NoRows, FALSE, "")]

\* app.delete("/api/notes/:id")
DeleteNotes(rs, sq, param) ==
    [rows |-> RowsWithoutId(rs, param), seq |-> sq,
     resp |-> Response(200, 0, Undefined, NoRows, TRUE, "")]

----------------------------------------------------------------------------
(* The state after construction: the table is created empty (CREATE TABLE  *)
(* IF NOT EXISTS on a new database file), and the component has mounted,   *)
(* so that its first fetchNotes() is in flight.                            *)

NoRequest ==
    [method |-> "NONE", content |-> Undefined, param |-> NoText,
     resp |-> Response(0, 0, Undefined, NoRows, FALSE, ""),
     rowsBefore |-> {}, seqBefore |-> 0]

Served(method, content, param, resp) ==
    [method |-> method, content |-> content, param |-> param,
     resp |-> resp, rowsBefore |-> rows, seqBefore |-> seq]

InitServer ==
    /\ rows = {}
    /\ seq = 0
    /\ now = 0
    /\ last = NoRequest
    /\ created = <<>>
    /\ deleted = {}

----------------------------------------------------------------------------
(* The routes called by any HTTP caller.  A request is served in one       *)
(* synchronous handler at now, and was made at now or before; created      *)
(* keeps, with each create response, the time servedAt it was served at.   *)

Tick ==
    /\ now < MaxTime
    /\ now' = now + 1
    /\ UNCHANGED <<serverVars, historyVars, clientVars>>

ApiList ==
    \E out \in GetNotes(rows, seq) :
        /\ rows' = out.rows
        /\ seq' = out.seq
        /\ last' = Served("GET", Undefined, NoText, out.resp)
        /\ UNCHANGED <<now, created, deleted, clientVars>>

ApiCreate ==
    \E content \in BodyContents :
        LET out == PostNotes(rows, seq, content, now)
        IN  /\ Falsy(content) \/ Len(created) < MaxCreates
            /\ rows' = out.rows
            /\ seq' = out.seq
            /\ last' = Served("POST", content, NoText, out.resp)
            /\ created' = IF out.resp.status = 200
                          THEN Append(created, [id |-> out.resp.id,
                                                content |-> out.resp.content,
                                                servedAt |-> now])
                          ELSE created
            /\ UNCHANGED <<now, deleted, clientVars>>

ApiDelete ==
    \E param \in IdParams :
        LET out == DeleteNotes(rows, seq, param)
        IN  /\ rows' = out.rows
            /\ seq' = out.seq
            /\ last' = Served("DELETE", Undefined, param, out.resp)
            /\ deleted' = deleted \cup {r.id : r \in rows \ out.rows}
            /\ UNCHANGED <<now, created, clientVars>>

----------------------------------------------------------------------------
(* The client: the component App.                                          *)

\* What the client has in flight: a request on its way to the server, or the
\* response on its way back to the call that awaits it.
Msg(kind, op, content, param, resp) ==
    [kind |-> kind, op |-> op, content |-> content, param |-> param, resp |-> resp]

NoResponse == Response(0, 0, Undefined, NoRows, FALSE, "")

Request(op, content, param) == Msg("req", op, content, param, NoResponse)

Reply(m, resp) == Msg("resp", m.op, m.content, m.param, resp)

InFlight(kind, op) == {m \in BagToSet(net) : m.kind = kind /\ m.op = op}

Sent(m) == net (+) SetToBag({m})

Replaced(m, n) == (net (-) SetToBag({m})) (+) SetToBag({n})

Received(m) == net (-) SetToBag({m})

\* res.ok
Ok(resp) == resp.status \in 200..299

\* lines.join(sep)
RECURSIVE Join(_, _)
Join(lines, sep) ==
    IF lines = <<>> THEN <<>>
    ELSE IF Len(lines) = 1 THEN lines[1]
    ELSE lines[1] \o sep \o Join(Tail(lines), sep)

RECURSIVE BulletLines(_)
BulletLines(ns) ==
    IF ns = <<>> THEN <<>> ELSE <<(<<"-", " ">> \o ns[1].content)>> \o BulletLines(Tail(ns))

\* notes.map(n => `- ${n.content}`).join('\n')
NotesBlock(ns) == Join(BulletLines(ns), <<"\n">>)

\* "I couldn't process that request."
NoTextFallback ==
    <<"I", " ", "c", "o", "u", "l", "d", "n", "'", "t", " ", "p", "r", "o",
      "c", "e", "s", "s", " ", "t", "h", "a", "t", " ", "r", "e", "q", "u",
      "e", "s", "t", ".">>

\* "Sorry, I encountered an error connecting to my brain."
ErrorFallback ==
    <<"S", "o", "r", "r", "y", ",", " ", "I", " ", "e", "n", "c", "o", "u",
      "n", "t", "e", "r", "e", "d", " ", "a", "n", " ", "e", "r", "r", "o",
      "r", " ", "c", "o", "n", "n", "e", "c", "t", "i", "n", "g", " ", "t",
      "o", " ", "m", "y", " ", "b", "r", "a", "i", "n", ".">>

\* response.text of the generative model: absent, empty, or a reply.
ReplyTexts == {Undefined, Str(<<>>), Str(<<"o", "k">>)}

\* response.text with no fallback.
AiTextWithoutFallback(text) == text.val

\* response.text || "I couldn't process that request."
AiText(text) == IF Falsy(text) THEN NoTextFallback ELSE text.val

Message(role, text) == [role |-> role, text |-> text]

InitClient ==
    /\ notes = <<>>
    /\ newNote = NoText
    /\ messages = <<>>
    /\ input = NoText
    /\ isLoading = FALSE
    /\ isAddingNote = FALSE
    /\ net = SetToBag({Request("fetchNotes", Undefined, NoText)})
    /\ genai = <<>>
    /\ lastSubmit = "none"
    /\ outcomes = <<>>

Init == InitServer /\ InitClient

----------------------------------------------------------------------------
(* The notes API under requests of any caller. *)

Next == Tick \/ ApiList \/ ApiCreate \/ ApiDelete

Spec == Init /\ [][Next]_vars

----------------------------------------------------------------------------
(* Claims on the notes API. *)

ListedIds == {last.resp.list[k].id : k \in 1..Len(last.resp.list)}

CreatedIds == {created[i].id : i \in 1..Len(created)}

\* C1: a create request whose content is empty or absent is answered with a
\* 400-class response and leaves the stored notes and the id counter as they
\* were.
C1_EmptyCreateRejected ==
    (last.method = "POST" /\ Falsy(last.content)) =>
        /\ last.resp.status \in 400..499
        /\ rows = last.rowsBefore
        /\ seq = last.seqBefore

C1_Witness ==
    /\ last.method = "POST"
    /\ last.content = Str(<<>>)
    /\ last.resp.status = 400
    /\ rows # {}

\* The note of create response c is in the list of the last response, with
\* the submitted content and the reported id.
ListedAsCreated(c, row) ==
    /\ row.id = c.id
    /\ row.content = c.content.val

\* C2 as claimed (a request of any caller is issued and served in one step):
\* every list issued while a created note is not deleted holds that note with the submitted content, the id the create response
\* reported, and a created_at that is not before the instant the create
\* request was made.
C2_ListedWithLaterTimestamp ==
    last.method = "GET" =>
        \A i \in 1..Len(created) :
            created[i].id \notin deleted =>
                \E k \in 1..Len(last.resp.list) :
                    /\ ListedAsCreated(created[i], last.resp.list[k])
                    /\ \A sentAt \in 0..created[i].servedAt :
                          last.resp.list[k].created_at * TicksPerSecond >= sentAt

\* C2 as amended: every list issued while a created note is not deleted
\* holds that note with the submitted content, the id the create response
\* reported, and a created_at, in whole seconds, that is not before the
\* second in which the create request was made.
C2_ListedWithTimestampOfSecond ==
    last.method = "GET" =>
        \A i \in 1..Len(created) :
            created[i].id \notin deleted =>
                \E k \in 1..Len(last.resp.list) :
                    /\ ListedAsCreated(created[i], last.resp.list[k])
                    /\ \A sentAt \in 0..created[i].servedAt :
                          last.resp.list[k].created_at >= CurrentTimestamp(sentAt)

C2_Witness ==
    /\ last.method = "GET"
    /\ Len(last.resp.list) >= 2
    /\ deleted # {}
    /\ \E i \in 1..Len(created) :
          /\ created[i].id \in ListedIds
          /\ created[i].servedAt % TicksPerSecond # 0

\* C3: delete always answers success; it removes the row of a present id and
\* no other row, leaves the rows as they were when the id is not present
\* (also when it was deleted before), and no later list holds a deleted id.
C3_DeleteIdempotent ==
    /\ last.method = "DELETE" =>
          /\ last.resp.status = 200
          /\ last.resp.success
          /\ rows \subseteq last.rowsBefore
          /\ \A n \in 1..MaxCreates :
                last.param = Decimal(n) =>
                    rows = {r \in last.rowsBefore : r.id # n}
          /\ (\A r \in last.rowsBefore : Decimal(r.id) # last.param
                                         /\ NumericAffinity(last.param) # r.id)
                => rows = last.rowsBefore
          /\ Cardinality(last.rowsBefore \ rows) <= 1
    /\ last.method = "GET" => ListedIds \cap deleted = {}
    /\ \A r \in rows : r.id \notin deleted

C3_Witness ==
    /\ last.method = "DELETE"
    /\ NumericAffinity(last.param) \in deleted
    /\ rows = last.rowsBefore
    /\ rows # {}
    /\ Cardinality(deleted) >= 2

\* The note of row a was created after the note of row b.
CreatedLater(a, b) ==
    \E i, j \in 1..Len(created) :
        /\ created[i].id = a.id
        /\ created[j].id = b.id
        /\ i > j

\* C4 as claimed: every list is exactly the rows of the store, each once,
\* and of any two notes in it the one created later comes first.
C4_NewestFirst ==
    last.method = "GET" =>
        LET l == last.resp.list
        IN  /\ {l[k] : k \in 1..Len(l)} = rows
            /\ Len(l) = Cardinality(rows)
            /\ \A i, j \in 1..Len(l) : i < j => CreatedLater(l[i], l[j])

\* C5: no two stored notes share an id, each create is given an id greater
\* than every id given before, and the id of a deleted note is not given
\* again.
C5_IdsUniqueIncreasing ==
    /\ \A r, q \in rows : r.id = q.id => r = q
    /\ \A i, j \in 1..Len(created) : i < j => created[i].id < created[j].id
    /\ {r.id : r \in rows} = CreatedIds \ deleted
    /\ (last.method = "POST" /\ last.resp.status = 200) =>
          /\ last.resp.id \notin deleted
          /\ \A r \in last.rowsBefore : r.id < last.resp.id

C5_Witness ==
    /\ last.method = "POST"
    /\ last.resp.status = 200
    /\ last.rowsBefore # {}
    /\ MaxRowid(last.rowsBefore) < last.seqBefore
    /\ last.resp.id = MaxCreates

----------------------------------------------------------------------------
(* The client's note operations.  An await is a message in net: the code   *)
(* after it runs when the response is received or the fetch() rejects.     *)

noteVars == <<notes, newNote, isAddingNote, net>>
chatVars == <<messages, input, isLoading, genai, lastSubmit, outcomes>>

FetchNotesRequest == Request("fetchNotes", Undefined, NoText)

\* onChange of the textarea of the new note
SetNewNote ==
    \E t \in Texts :
        /\ newNote' = t
        /\ UNCHANGED <<serverVars, now, historyVars, chatVars, notes, isAddingNote, net>>

\* addNote, from the click to the await of the POST; the button is disabled
\* while isAddingNote or while the note is blank.
AddNote ==
    /\ ~isAddingNote
    /\ Trim(newNote) # <<>>
    /\ BagCardinality(net) < MaxInFlight
    /\ seq < MaxAdds
    /\ isAddingNote' = TRUE
    /\ net' = Sent(Request("addNote", Str(newNote), NoText))
    /\ UNCHANGED <<serverVars, now, historyVars, chatVars, notes, newNote>>

\* addNote, after the await: clear the textarea and refresh when res.ok.
AddNoteDone ==
    \E m \in InFlight("resp", "addNote") :
        /\ IF Ok(m.resp)
           THEN /\ newNote' = NoText
                /\ net' = Replaced(m, FetchNotesRequest)
           ELSE /\ newNote' = newNote
                /\ net' = Received(m)
        /\ isAddingNote' = FALSE
        /\ UNCHANGED <<serverVars, now, historyVars, chatVars, notes>>

\* deleteNote, from the click on a note to the await of the DELETE
DeleteNote ==
    \E i \in 1..Len(notes) :
        /\ BagCardinality(net) < MaxInFlight
        /\ net' = Sent(Request("deleteNote", Undefined, Decimal(notes[i].id)))
        /\ UNCHANGED <<serverVars, now, historyVars, chatVars, notes, newNote, isAddingNote>>

\* deleteNote, after the await: refresh, whatever the response.
DeleteNoteDone ==
    \E m \in InFlight("resp", "deleteNote") :
        /\ net' = Replaced(m, FetchNotesRequest)
        /\ UNCHANGED <<serverVars, now, historyVars, chatVars, notes, newNote, isAddingNote>>

\* fetchNotes, after the awaits: setNotes(data)
FetchNotesDone ==
    \E m \in InFlight("resp", "fetchNotes") :
        /\ notes' = m.resp.list
        /\ net' = Received(m)
        /\ UNCHANGED <<serverVars, now, historyVars, chatVars, newNote, isAddingNote>>

\* A fetch() rejects, the request or its response being lost: the catch of
\* the operation logs it, and the finally of addNote resets isAddingNote.
FetchRejected ==
    \E m \in BagToSet(net) :
        /\ net' = Received(m)
        /\ isAddingNote' = IF m.op = "addNote" THEN FALSE ELSE isAddingNote
        /\ UNCHANGED <<serverVars, now, historyVars, chatVars, notes, newNote>>

----------------------------------------------------------------------------
(* The server, serving the client's requests. *)

ServeList ==
    \E m \in InFlight("req", "fetchNotes"), out \in GetNotes(rows, seq) :
        /\ rows' = out.rows
        /\ seq' = out.seq
        /\ net' = Replaced(m, Reply(m, out.resp))
        /\ UNCHANGED <<now, historyVars, chatVars, notes, newNote, isAddingNote>>

ServeCreate ==
    \E m \in InFlight("req", "addNote") :
        LET out == PostNotes(rows, seq, m.content, now)
        IN  /\ rows' = out.rows
            /\ seq' = out.seq
            /\ net' = Replaced(m, Reply(m, out.resp))
            /\ UNCHANGED <<now, historyVars, chatVars, notes, newNote, isAddingNote>>

ServeDelete ==
    \E m \in InFlight("req", "deleteNote") :
        LET out == DeleteNotes(rows, seq, m.param)
        IN  /\ rows' = out.rows
            /\ seq' = out.seq
            /\ net' = Replaced(m, Reply(m, out.resp))
            /\ UNCHANGED <<now, historyVars, chatVars, notes, newNote, isAddingNote>>

----------------------------------------------------------------------------
(* The chat: handleChat and the call of the generative model.  A handler   *)
(* reads the state of the render it was bound in; React renders between    *)
(* two events, so a submit reads the state the last event left.  The code  *)
(* after an await runs to its end in one step.  A generateContent() that   *)
(* throws at once is caught like one that rejects later.                   *)

\* onChange of the chat input, and the click on a suggestion
SetInput ==
    \E t \in Texts :
        /\ input' = t
        /\ UNCHANGED <<serverVars, now, historyVars, noteVars, messages, isLoading, genai,
                       lastSubmit, outcomes>>

\* A guard that looks at the input only.
SubmitRejectedWhenBlank == Trim(input) = <<>>

\* if (!input.trim() || isLoading) return;
SubmitRejected == Trim(input) = <<>> \/ isLoading

\* The contents of the generateContent() call: the notes the component
\* holds, as a bulleted block, and the user's message.
ChatRequest(ns, userMessage) ==
    [notesBlock |-> NotesBlock(ns), userMessage |-> userMessage]

\* handleChat, from the submit event to the await of the model's response
HandleChat ==
    IF SubmitRejected
    THEN /\ lastSubmit' = IF Trim(input) = <<>> THEN "rejected blank"
                                               ELSE "rejected while loading"
         /\ UNCHANGED <<serverVars, now, historyVars, noteVars, messages, input, isLoading,
                        genai, outcomes>>
    ELSE /\ Len(messages) < 2 * MaxTurns
         /\ input' = NoText
         /\ messages' = Append(messages, Message("user", input))
         /\ isLoading' = TRUE
         /\ genai' = Append(genai, ChatRequest(notes, input))
         /\ lastSubmit' = "accepted"
         /\ UNCHANGED <<serverVars, now, historyVars, noteVars, outcomes>>

\* What handleChat leaves when it returns: the messages, isLoading, and
\* whether an exception leaves it.
Settled(msgs, loading, escaped) ==
    [messages |-> msgs, isLoading |-> loading, escaped |-> escaped]

\* The end of the try block with no finally.
ChatResolvedNoFinally(msgs, text) ==
    Settled(Append(msgs, Message("ai", AiText(text))), TRUE, FALSE)

\* const response = await model; ... setMessages(...); finally setIsLoading(false)
ChatResolved(msgs, text) ==
    Settled(Append(msgs, Message("ai", AiText(text))), FALSE, FALSE)

\* A try with finally and no catch.
ChatRejectedUncaught(msgs) == Settled(msgs, FALSE, TRUE)

\* catch (err) { ... setMessages(...) } finally { setIsLoading(false) }
ChatRejected(msgs) ==
    Settled(Append(msgs, Message("ai", ErrorFallback)), FALSE, FALSE)

RemoveAt(s, i) == SubSeq(s, 1, i - 1) \o SubSeq(s, i + 1, Len(s))

Outcome(kind, reply, escaped) == [kind |-> kind, reply |-> reply, escaped |-> escaped]

\* The model's call resolves with a response.
GenaiResolves ==
    \E i \in 1..Len(genai), text \in ReplyTexts :
        LET end == ChatResolved(messages, text)
        IN  /\ messages' = end.messages
            /\ isLoading' = end.isLoading
            /\ genai' = RemoveAt(genai, i)
            /\ outcomes' = Append(outcomes, Outcome("resolved", text, end.escaped))
            /\ UNCHANGED <<serverVars, now, historyVars, noteVars, input, lastSubmit>>

\* The model's call throws: a network or quota failure.
GenaiRejects ==
    \E i \in 1..Len(genai) :
        LET end == ChatRejected(messages)
        IN  /\ messages' = end.messages
            /\ isLoading' = end.isLoading
            /\ genai' = RemoveAt(genai, i)
            /\ outcomes' = Append(outcomes, Outcome("rejected", Undefined, end.escaped))
            /\ UNCHANGED <<serverVars, now, historyVars, noteVars, input, lastSubmit>>

----------------------------------------------------------------------------
(* The application: one client and the server.  The clock stands still:    *)
(* the client reads no created_at, and with all rows of one second every   *)
(* order of a list is possible.                                            *)

AppNext ==
    \/ SetNewNote
    \/ AddNote
    \/ AddNoteDone
    \/ DeleteNote
    \/ DeleteNoteDone
    \/ FetchNotesDone
    \/ FetchRejected
    \/ ServeList
    \/ ServeCreate
    \/ ServeDelete
    \/ SetInput
    \/ HandleChat
    \/ GenaiResolves
    \/ GenaiRejects

AppSpec == Init /\ [][AppNext]_vars

----------------------------------------------------------------------------
(* The chat alone: the note operations leave messages, input, isLoading    *)
(* and the calls of the model as they are.                                 *)

ChatNext == SetInput \/ HandleChat \/ GenaiResolves \/ GenaiRejects

ChatSpec == Init /\ [][ChatNext]_vars

\* The call of the model returns or fails in the end.
FairChatSpec == ChatSpec /\ WF_vars(GenaiResolves \/ GenaiRejects)

----------------------------------------------------------------------------
(* Claims on the chat. *)

\* The k-th call of the model to end was a failure.
Failed(k) == outcomes[k].kind = "rejected"

\* The k-th call of the model to end returned no usable text.
NoUsableText(k) == outcomes[k].kind = "resolved" /\ Falsy(outcomes[k].reply)

\* The k-th call of the model to end returned usable text.
UsableText(k) == outcomes[k].kind = "resolved" /\ ~Falsy(outcomes[k].reply)

\* The k-th turn holds one user message and then one AI message of this text.
TurnAnsweredWith(k, text) ==
    /\ Len(messages) >= 2 * k
    /\ messages[2 * k - 1].role = "user"
    /\ messages[2 * k] = Message("ai", text)
    /\ Len(messages) > 2 * k => messages[2 * k + 1].role = "user"

\* C6: when the call of the model fails, the turn ends with exactly one AI
\* message, the fixed error fallback, appended to the conversation, with
\* isLoading reset, and no exception leaves handleChat.
C6_FailureGivesFallback ==
    \A k \in 1..Len(outcomes) :
        Failed(k) =>
            /\ ~outcomes[k].escaped
            /\ TurnAnsweredWith(k, ErrorFallback)
            /\ (k = Len(outcomes) /\ Len(messages) = 2 * k) => ~isLoading

C6_Witness ==
    /\ Len(outcomes) = 2
    /\ UsableText(1)
    /\ Failed(2)
    /\ Len(messages) = 4
    /\ messages[4].text = ErrorFallback

\* The reply is the model's text verbatim when it returned usable text.
ReplyVerbatim ==
    \A k \in 1..Len(outcomes) :
        UsableText(k) => TurnAnsweredWith(k, outcomes[k].reply.val)

\* C7 as claimed: the reply is the model's text verbatim when it returned
\* usable text, and one and the same static string when the call failed or
\* returned no usable text.
C7_OneFallback ==
    /\ ReplyVerbatim
    /\ \A k \in 1..Len(outcomes) :
          (Failed(k) \/ NoUsableText(k)) =>
              \E text \in {NoTextFallback, ErrorFallback} : TurnAnsweredWith(k, text)
    /\ \A j, k \in 1..Len(outcomes) :
          ((Failed(j) \/ NoUsableText(j)) /\ (Failed(k) \/ NoUsableText(k))) =>
              messages[2 * j].text = messages[2 * k].text

\* C7 as amended: the reply is the model's text verbatim when it returned
\* usable text; it is the static string "I couldn't process that request."
\* when the call returned no usable text, and the other static string
\* "Sorry, I encountered an error connecting to my brain." when it failed.
C7_TwoFallbacks ==
    /\ ReplyVerbatim
    /\ \A k \in 1..Len(outcomes) :
          /\ NoUsableText(k) => TurnAnsweredWith(k, NoTextFallback)
          /\ Failed(k) => TurnAnsweredWith(k, ErrorFallback)
    /\ NoTextFallback # ErrorFallback

C7_Witness ==
    /\ Len(outcomes) = 2
    /\ Len(messages) = 4
    /\ \E j, k \in 1..2 :
          /\ NoUsableText(j)
          /\ outcomes[j].reply = Str(<<>>)
          /\ Failed(k)
          /\ messages[2 * j].text # messages[2 * k].text

\* While a call of the model is outstanding no step sends another and the
\* messages change only as the call ends; a call is sent only when none is
\* outstanding.
C9_Step ==
    /\ isLoading =>
          /\ Len(genai') <= Len(genai)
          /\ messages' # messages => Len(genai') < Len(genai)
    /\ Len(genai') > Len(genai) => (~isLoading /\ genai = <<>>)

\* C9: the client has at most one call of the model in flight, isLoading
\* being true while it is outstanding; a submit made meanwhile sends nothing
\* and appends nothing, and a submit is accepted again only when the call
\* has completed or failed.
C9_OneCallInFlight ==
    /\ [](Len(genai) <= 1 /\ (isLoading <=> Len(genai) = 1))
    /\ [][C9_Step]_vars

C9_Witness ==
    /\ lastSubmit = "rejected while loading"
    /\ isLoading
    /\ Trim(input) # <<>>
    /\ Len(genai) = 1
    /\ Len(messages) = 3

Alternating ==
    \A i \in 1..Len(messages) :
        messages[i].role = IF i % 2 = 1 THEN "user" ELSE "ai"

\* C10: the conversation alternates user, ai, user, ai, ...; isLoading is
\* true exactly while the last message is a user message with no answer;
\* and, the call of the model returning or failing in the end, isLoading
\* returns to false and each accepted message gets its one AI message.
C10_EveryTurnAnswered ==
    /\ [](Alternating /\ (isLoading <=> Len(messages) % 2 = 1))
    /\ (isLoading ~> ~isLoading)
    /\ \A n \in 1..MaxTurns :
          (Len(messages) = 2 * n - 1) ~>
              (Len(messages) = 2 * n /\ Len(outcomes) = n /\ messages[2 * n].role = "ai")

C10_Witness ==
    /\ Len(messages) = 2 * MaxTurns
    /\ Len(outcomes) = MaxTurns
    /\ ~isLoading
    /\ genai = <<>>

----------------------------------------------------------------------------
(* Claims on the chat's context. *)

\* C8 as claimed: when a chat request is submitted, the notes in its prompt
\* are the notes the store holds at that moment.
C8_PromptHoldsStoreNotes ==
    [][Len(genai') > Len(genai) =>
          genai'[Len(genai')].notesBlock
              \in {NotesBlock(l) : l \in SelectAllOrderByCreatedAtDesc(rows)}]_vars

----------------------------------------------------------------------------
(* The note operations of one client and the server, every fetch() being   *)
(* answered: no request and no response is lost.                           *)

NotesNext ==
    \/ SetNewNote
    \/ AddNote
    \/ AddNoteDone
    \/ DeleteNote
    \/ DeleteNoteDone
    \/ FetchNotesDone
    \/ ServeList
    \/ ServeCreate
    \/ ServeDelete

NotesSpec == Init /\ [][NotesNext]_vars

\* Every request addNote, deleteNote and fetchNotes issued is answered and
\* its response received: none is in flight.
Quiescent == BagToSet(net) = {}

\* C11 as claimed: once no request of the client is in flight, the notes it
\* holds are the store's current list, whatever the order in which the
\* responses of the refreshes arrived.
C11_NotesConverge ==
    Quiescent => notes \in SelectAllOrderByCreatedAtDesc(rows)

====
